---- MODULE Spec2Model ----
(***************************************************************************)
(* Model of the incremental ingestion engine of the product-review         *)
(* scraper (incremental_scraper.py): the on-disk watermark store, the      *)
(* per-source dataset and temporary files, merge_new_reviews and the sync  *)
(* cycle run_incremental_scrape.                                           *)
(*                                                                         *)
(* Data files are pandas frames: a set of column names and a sequence of   *)
(* rows.  A cell of a column the frame does not have is NaN.  Strings are  *)
(* sequences of integer tokens so that the '-'.join of the composite key   *)
(* is a real concatenation.                                                *)
(***************************************************************************)
EXTENDS Integers, Sequences, FiniteSets, TLC

VARIABLES
    stateFile,   \* scraper_state.json on disk
    state,       \* self.state of each IncrementalScraper process
    alive,       \* position of each process: "none", "ready", "crashed"
    dataFile,    \* <site_key>_reviews.csv per site key
    tempFile,    \* <site_key>_new_reviews.csv per site key
    clock,       \* datetime.now(), counted in cycles
    idKind,      \* dtype of the source's review ids: "int64" or "object"
    call,        \* the last operation: its inputs, the state it started from, its result
    history      \* stats of the successive merge_new_reviews calls of one scenario

vars == <<stateFile, state, alive, dataFile, tempFile, clock, idKind, call, history>>

----------------------------------------------------------------------------
(* Bounds of the model *)

MaxId == 1          \* review ids are 0..MaxId
MaxNew == 2         \* rows of one fetched file
MaxRows == 3        \* rows of a dataset file in the sync specification
MaxClock == 2       \* sync cycles of one behaviour
MaxMerges == 2      \* successive merges of one scenario in the merge specification
MaxOld == 1         \* rows of the existing file at the start of the merge specification
MaxCalls == 2       \* calls of _generate_site_key in the identity specification
MaxTextLen == 3     \* tokens of a raw review text
MaxRatingLen == 3   \* tokens of a raw rating text

----------------------------------------------------------------------------
(* Values of cells and of watermark fields *)

NA == -1            \* NaN: a missing cell
NoField == -9       \* the key is not in the dict
PyNone == -8        \* Python None (JSON null)
NaT == -2           \* pandas NaT: a date that did not parse
Dash == 0           \* the character '-' of a string
NanTok == 99        \* the string "nan" that astype(str) makes of NaN
NAStr == << >>      \* a missing string cell

Procs == {"p1", "p2"}
SyncProcs == {"p1"}     \* the processes of the sync specification: one per deployment

IdVals == 0..MaxId
ReviewerVals == {<<7>>, <<7, Dash, 7>>}
BadDate == <<7, Dash, 1>>      \* a date string that does not parse
DateOfId(a) == <<a + 1>>       \* review a was posted on day a + 1
DateVals == {DateOfId(a) : a \in IdVals} \cup {BadDate}
BodyVals == {1, 2}             \* two different review texts

----------------------------------------------------------------------------
(* Frames: the content of a CSV file as pandas reads it *)

AbsentFile == [kind |-> "absent", cols |-> {}, rows |-> << >>]
BadFile == [kind |-> "bad", cols |-> {}, rows |-> << >>]
Csv(cols, rows) == [kind |-> "csv", cols |-> cols, rows |-> rows]

Exists(f) == f.kind # "absent"

\* the keywords of the column searches that each column name contains
Substrings(col) ==
    CASE col = "review_id" -> {"id", "review_id"}
      [] col = "reviewer_name" -> {"reviewer"}
      [] col = "review_date" -> {"date"}
      [] OTHER -> {}

IdColumns(cols) == {c \in cols : Substrings(c) \cap {"id", "review_id", "reviewid"} # {}}
ReviewerColumns(cols) == {c \in cols : Substrings(c) \cap {"reviewer", "author", "user"} # {}}
DateColumns(cols) == {c \in cols : Substrings(c) \cap {"date", "time", "posted"} # {}}

\* a row as a frame with the columns cols holds it
Project(r, cols) ==
    [id |-> IF "review_id" \in cols THEN r.id ELSE NA,
     reviewer |-> IF "reviewer_name" \in cols THEN r.reviewer ELSE NAStr,
     date |-> IF "review_date" \in cols THEN r.date ELSE NAStr,
     body |-> IF "review_text" \in cols THEN r.body ELSE NA]

ProjectAll(rows, cols) == [i \in 1..Len(rows) |-> Project(rows[i], cols)]

\* pd.concat([df_existing, df_new], ignore_index=True)
Concat(E, N) ==
    Csv(E.cols \cup N.cols,
        ProjectAll(E.rows, E.cols) \o ProjectAll(N.rows, N.cols))

\* astype(str)
AsStr(s) == IF s = NAStr THEN <<NanTok>> ELSE s

\* df[potential_keys].astype(str).agg('-'.join, axis=1)
MergeKey(r) == AsStr(r.reviewer) \o <<Dash>> \o AsStr(r.date)

IdKey(r) == <<r.id>>

RECURSIVE DropFrom(_, _, _, _)
DropFrom(rows, keys, i, seen) ==
    IF i > Len(rows) THEN << >>
    ELSE IF keys[i] \in seen THEN DropFrom(rows, keys, i + 1, seen)
    ELSE <<rows[i]>> \o DropFrom(rows, keys, i + 1, seen \cup {keys[i]})

\* keep='last' in place of keep='first'
DropDuplicatesKeepLast(rows, keys) ==
    LET n == Len(rows)
        rev(q) == [i \in 1..Len(q) |-> q[Len(q) + 1 - i]]
    IN  rev(DropFrom(rev(rows), rev(keys), 1, {}))

\* df.drop_duplicates(subset=[dedup_key], keep='first')
DropDuplicates(rows, keys) == DropFrom(rows, keys, 1, {})

----------------------------------------------------------------------------
(* merge_new_reviews(existing_file, new_file), output_file = existing_file *)

NoStats == [existing |-> NoField, new |-> NoField, new_added |-> NoField, merged |-> NoField]
Stats3(e, n, m) == [existing |-> e, new |-> n, new_added |-> NoField, merged |-> m]
Stats4(e, n, a, m) == [existing |-> e, new |-> n, new_added |-> a, merged |-> m]

MergeFailed(E) == [success |-> FALSE, path |-> "none", branch |-> "error", stats |-> NoStats, out |-> E]

\* the dedup key of the merge: "id", "composite", "none" (degraded)
DedupKey(E) ==
    IF IdColumns(E.cols) # {} THEN "id"
    ELSE IF ReviewerColumns(E.cols) # {} /\ DateColumns(E.cols) # {} THEN "composite"
    ELSE "none"

\* reviewer_columns[0] and date_columns[0]
PotentialKeys(cols) == ReviewerColumns(cols) \cup DateColumns(cols)

KeysOf(rows, strategy) ==
    [i \in 1..Len(rows) |-> IF strategy = "id" THEN IdKey(rows[i]) ELSE MergeKey(rows[i])]

MergeNewReviews(E, N) ==
    IF ~Exists(E) THEN
        IF Exists(N) THEN
            IF N.kind = "bad" THEN MergeFailed(E)
            ELSE [success |-> TRUE, path |-> "output", branch |-> "copy",
                  stats |-> Stats3(0, Len(N.rows), Len(N.rows)), out |-> N]
        ELSE MergeFailed(E)
    ELSE IF ~Exists(N) THEN
        [success |-> TRUE, path |-> "existing", branch |-> "nonew",
         stats |-> Stats3(0, 0, 0), out |-> E]
    ELSE IF E.kind = "bad" \/ N.kind = "bad" THEN MergeFailed(E)
    ELSE IF N.rows = << >> THEN
        [success |-> TRUE, path |-> "existing", branch |-> "empty",
         stats |-> Stats3(Len(E.rows), 0, Len(E.rows)), out |-> E]
    ELSE LET strategy == DedupKey(E)
             all == Concat(E, N)
         IN  IF strategy = "none" THEN
                 [success |-> TRUE, path |-> "output", branch |-> "degraded",
                  stats |-> Stats3(Len(E.rows), Len(N.rows), Len(all.rows)), out |-> all]
             ELSE IF strategy = "composite" /\ ~(PotentialKeys(E.cols) \subseteq N.cols) THEN
                 MergeFailed(E)      \* KeyError on df_new[potential_keys]
             ELSE LET kept == DropDuplicates(all.rows, KeysOf(all.rows, strategy))
                      cols == IF strategy = "composite"
                              THEN all.cols \cup {"_merge_key"} ELSE all.cols
                  IN  [success |-> TRUE, path |-> "output", branch |-> "keyed",
                       stats |-> Stats4(Len(E.rows), Len(N.rows),
                                        Len(kept) - Len(E.rows), Len(kept)),
                       out |-> Csv(cols, kept)]

----------------------------------------------------------------------------
(* Source identity: _generate_site_key *)

\* A url is its scheme, the tokens of its host and the tokens of its path; the url
\* string is their concatenation.
Urls ==
    {[scheme |-> "https://", host |-> <<"amazon", ".com">>,
      path |-> <<"/", "dp", "/", "B00000000A">>],
     [scheme |-> "https://", host |-> <<"shop", ".example">>,
      path |-> <<"/", "item", "/", "1">>],
     [scheme |-> "", host |-> << >>, path |-> <<"/", "item", "/", "1">>]}   \* no scheme, no host

\* the tokens that match [A-Z0-9]{10} and the tokens that match \d+
AsinTokens == {"B00000000A", "B00000000B"}
DigitTokens == {"1", "2"}

\* (?:www\.)? of the domain pattern
StripWww(host) == IF host # << >> /\ Head(host) = "www." THEN Tail(host) ELSE host

\* re.search(r'https?://(?:www\.)?([^/]+)', url), "unknown" when there is no match
Domain(url) ==
    IF url.scheme \in {"http://", "https://"} /\ StripWww(url.host) # << >>
    THEN StripWww(url.host) ELSE <<"unknown">>

\* the positions of the path at which the pattern of the site matches
AmazonMatches(path) ==
    {i \in 1..(Len(path) - 3) :
        /\ path[i] = "/" /\ path[i + 1] \in {"dp", "asin"} /\ path[i + 2] = "/"
        /\ path[i + 3] \in AsinTokens}
WalmartMatches(path) ==
    {i \in 1..(Len(path) - 5) :
        /\ path[i] = "/" /\ path[i + 1] = "ip" /\ path[i + 2] = "/"
        /\ path[i + 3] # "/" /\ path[i + 4] = "/" /\ path[i + 5] \in DigitTokens}

Min(S) == CHOOSE i \in S : \A j \in S : i <= j

InSeq(x, q) == \E i \in 1..Len(q) : q[i] = x

\* the product id the first pattern match extracts, << >> when there is none (the
\* bestbuy and target branches are like the walmart one; no host of the model
\* takes them)
ProductId(url) ==
    LET d == Domain(url)
    IN  IF InSeq("amazon", d) THEN
            IF AmazonMatches(url.path) # {}
            THEN <<url.path[Min(AmazonMatches(url.path)) + 3]>> ELSE << >>
        ELSE IF InSeq("walmart", d) THEN
            IF WalmartMatches(url.path) # {}
            THEN <<url.path[Min(WalmartMatches(url.path)) + 5]>> ELSE << >>
        ELSE << >>

\* a key that leaves the product id out
GenerateSiteKeyDomainOnly(url) ==
    IF ProductId(url) = << >> THEN <<"md5", url.scheme>> \o url.host \o url.path
    ELSE Domain(url)

\* f"{domain}_{product_id}", or the md5 digest of the url string
GenerateSiteKey(url) ==
    IF ProductId(url) = << >> THEN <<"md5", url.scheme>> \o url.host \o url.path
    ELSE Domain(url) \o <<"_">> \o ProductId(url)

Keys == {GenerateSiteKey(u) : u \in Urls}

----------------------------------------------------------------------------
(* The watermark store *)

NoUrl == [scheme |-> "", host |-> << >>, path |-> << >>]

\* no entry for the key (get_last_scrape_info returns None)
NoWM == [present |-> FALSE, latest_date |-> NoField, review_id |-> NoField,
         id_type |-> "none", total_reviews |-> 0,
         last_scrape_time |-> 0, last_scrape_url |-> NoUrl]

EmptyStore == [k \in Keys |-> NoWM]

NoStateFile == [kind |-> "absent", store |-> EmptyStore]
\* a document cut short: the beginning of the dump of store
PartialStateFile(store) == [kind |-> "partial", store |-> store]
StateFileOf(store) == [kind |-> "json", store |-> store]

\* _load_state: {} when the file is absent, {} when json.load raises
LoadState(sf) == IF sf.kind = "json" THEN sf.store ELSE EmptyStore

\* json.load's error on a cut-short document is not caught
LoadRaisesOnPartial(sf) == sf.kind = "partial"

\* _load_state lets no exception out: `except Exception` returns {}
LoadRaises(sf) == FALSE

GetLastScrapeInfo(store, url) == store[GenerateSiteKey(url)]

\* json.dump raises TypeError on a numpy.int64
Serializable(store) == \A k \in Keys : store[k].id_type # "int64"

\* a save that first reads the file and keeps the entries of the file that the
\* writer's store has not
SaveStateMerged(sf, store, io) ==
    LET merged == [k \in Keys |-> IF store[k].present THEN store[k] ELSE LoadState(sf)[k]]
    IN  IF io = "ok" /\ Serializable(merged) THEN StateFileOf(merged)
        ELSE PartialStateFile(merged)

\* _save_state under the outcome io of the write: the file is opened with 'w'
\* (truncated) and the document is written in place
SaveState(sf, store, io) ==
    IF io = "ok" /\ Serializable(store) THEN StateFileOf(store)
    ELSE PartialStateFile(store)

----------------------------------------------------------------------------
(* _get_latest_review_info *)

\* pd.to_datetime(errors="coerce") of one cell
ParseDate(s) == IF Len(s) = 1 /\ s[1] >= 1 THEN s[1] ELSE NaT

\* the type of the value read from the id column of a frame
IdType(rows, v, kind) ==
    IF kind = "object" THEN (IF v = NA THEN "float" ELSE "str")
    ELSE IF \E i \in 1..Len(rows) : rows[i].id = NA THEN "float" ELSE "int64"

\* row i can be df.iloc[0] after sort_values(by=date_column, ascending=False):
\* NaT sorts last, the order of equal dates is the sort's
IsLatest(rows, i) ==
    \A j \in 1..Len(rows) : ParseDate(rows[j].date) = NaT
                            \/ ParseDate(rows[j].date) <= ParseDate(rows[i].date)

\* the file is found, parses and is not empty
HasReviews(f) == f.kind = "csv" /\ f.rows # << >>

GetLatestReviewInfo(f, i, kind) ==
    IF ~HasReviews(f) THEN NoWM      \* None
    ELSE IF DateColumns(f.cols) # {} THEN
        [NoWM EXCEPT !.present = TRUE,
                     !.latest_date = ParseDate(f.rows[i].date),
                     !.review_id = IF IdColumns(f.cols) # {} THEN f.rows[i].id ELSE PyNone,
                     !.id_type = IF IdColumns(f.cols) # {}
                                 THEN IdType(f.rows, f.rows[i].id, kind) ELSE "none",
                     !.total_reviews = Len(f.rows)]
    ELSE IF IdColumns(f.cols) # {} THEN
        [NoWM EXCEPT !.present = TRUE,
                     !.review_id = f.rows[1].id,
                     !.id_type = IdType(f.rows, f.rows[1].id, kind),
                     !.total_reviews = Len(f.rows)]
    ELSE [NoWM EXCEPT !.present = TRUE, !.total_reviews = Len(f.rows)]

----------------------------------------------------------------------------
(* run_incremental_scrape *)

\* what the external fetcher can write to the temporary file
FetchSchemas ==
    {{"review_id", "review_date", "review_text"},
     {"review_text"}}

FetchRows(cols) ==
    UNION {{Project([id |-> a, reviewer |-> NAStr, date |-> d, body |-> 1], cols) :
               d \in {DateOfId(a), BadDate}} : a \in IdVals}

SeqsUpTo(S, n) == UNION {[1..m -> S] : m \in 0..n}

FetchFiles ==
    {BadFile} \cup UNION {{Csv(cols, rows) : rows \in SeqsUpTo(FetchRows(cols), MaxNew)} :
                          cols \in FetchSchemas}

\* the write of the state file completes, or the process is interrupted in it
IoOutcomes == {"ok", "killed"}

NoParams == [since_date |-> NoField, since_id |-> NoField]

NoCall == [op |-> "none", proc |-> "p1", url |-> NoUrl, rc |-> 0, produced |-> FALSE,
           records |-> NoField, fetched |-> FALSE, params |-> NoParams, outcome |-> "none",
           branch |-> "none", stats |-> NoStats, derived |-> FALSE, saved |-> FALSE,
           loaded |-> "none"]

\* `if "review_id" in last_scrape and last_scrape["review_id"]`
Truthy(wm) ==
    CASE wm.id_type = "none" -> FALSE
      [] wm.id_type = "str" -> TRUE
      [] OTHER -> wm.review_id # 0

\* scrape_params of the cycle for the watermark last (NoWM: no previous scrape)
ScrapeParams(last) ==
    [since_date |-> IF last.present /\ last.latest_date # NoField
                    THEN last.latest_date - 1 ELSE NoField,
     since_id |-> IF last.present /\ Truthy(last) THEN last.review_id ELSE NoField]

\* datetime.fromisoformat(last_scrape["latest_date"]) raises ValueError on "NaT"
FromIsoformatRaises(last) == last.present /\ last.latest_date = NaT

\* an absent output file taken for an error of the merge step
MergeStepNoCopy(output, temp) ==
    IF ~Exists(output) THEN MergeFailed(output) ELSE MergeNewReviews(output, temp)

\* the merge step of the cycle: merge_new_reviews when the output file exists,
\* else the copy of the temporary file
MergeStep(output, temp) == MergeNewReviews(output, temp)

\* the rows that can be the latest review of the file f
LatestChoices(f) ==
    IF DateColumns(f.cols) # {} THEN {i \in 1..Len(f.rows) : IsLatest(f.rows, i)} ELSE {1}

RunIncrementalScrape(p, url, rc, art) ==
    LET key == GenerateSiteKey(url)
        last == GetLastScrapeInfo(state[p], url)
        temp == IF art = AbsentFile THEN tempFile[key] ELSE art
        m == MergeStep(dataFile[key], temp)
        derived == m.success /\ HasReviews(m.out)
        base == [NoCall EXCEPT !.op = "scrape", !.proc = p, !.url = url, !.rc = rc,
                               !.produced = (art # AbsentFile),
                               !.records = IF temp.kind = "csv" THEN Len(temp.rows)
                                           ELSE NoField]
        ran == [base EXCEPT !.fetched = TRUE, !.params = ScrapeParams(last)]
    IN  /\ alive[p] = "ready"
        /\ clock < MaxClock
        /\ clock' = clock + 1
        /\ UNCHANGED <<idKind, history>>
        /\ IF FromIsoformatRaises(last) THEN
               /\ rc = 0 /\ art = AbsentFile
               /\ alive' = [alive EXCEPT ![p] = "crashed"]
               /\ call' = [base EXCEPT !.outcome = "raised"]
               /\ UNCHANGED <<stateFile, state, dataFile, tempFile>>
           ELSE IF rc # 0 \/ ~Exists(temp) THEN
               /\ tempFile' = [tempFile EXCEPT ![key] = temp]
               /\ call' = [ran EXCEPT !.outcome = "failed"]
               /\ UNCHANGED <<stateFile, state, alive, dataFile>>
           ELSE IF ~derived THEN
               /\ dataFile' = [dataFile EXCEPT ![key] = m.out]
               /\ tempFile' = [tempFile EXCEPT ![key] = AbsentFile]
               /\ call' = [ran EXCEPT !.outcome = IF m.success THEN "success" ELSE "failed",
                                      !.branch = m.branch, !.stats = m.stats]
               /\ UNCHANGED <<stateFile, state, alive>>
           ELSE
               /\ Len(m.out.rows) <= MaxRows
               /\ dataFile' = [dataFile EXCEPT ![key] = m.out]
               /\ \E io \in IoOutcomes, i \in LatestChoices(m.out) :
                    LET info == GetLatestReviewInfo(m.out, i, idKind)
                        wm == [info EXCEPT !.last_scrape_time = clock + 1,
                                           !.last_scrape_url = url]
                        store == [state[p] EXCEPT ![key] = wm]
                    IN  /\ state' = [state EXCEPT ![p] = store]
                        /\ stateFile' = SaveState(stateFile, store, io)
                        /\ IF io = "killed"
                           THEN /\ alive' = [alive EXCEPT ![p] = "crashed"]
                                /\ tempFile' = [tempFile EXCEPT ![key] = temp]
                                /\ call' = [ran EXCEPT !.outcome = "killed",
                                                       !.branch = m.branch,
                                                       !.derived = TRUE]
                           ELSE /\ tempFile' = [tempFile EXCEPT ![key] = AbsentFile]
                                /\ call' = [ran EXCEPT !.outcome = "success",
                                                       !.branch = m.branch,
                                                       !.stats = m.stats,
                                                       !.derived = TRUE,
                                                       !.saved = Serializable(store)]
                                /\ UNCHANGED alive

\* IncrementalScraper(): a process starts and loads the state file
Construct(p) ==
    /\ clock < MaxClock
    /\ state' = [state EXCEPT ![p] = LoadState(stateFile)]
    /\ alive' = [alive EXCEPT ![p] = IF LoadRaises(stateFile) THEN "crashed" ELSE "ready"]
    /\ call' = [NoCall EXCEPT !.op = "init", !.proc = p, !.loaded = stateFile.kind]
    /\ UNCHANGED <<stateFile, dataFile, tempFile, clock, idKind, history>>

\* the operator deletes the state file to force a full re-sync
DeleteStateFile ==
    /\ clock < MaxClock
    /\ stateFile.kind # "absent"
    /\ stateFile' = NoStateFile
    /\ call' = [NoCall EXCEPT !.op = "delete"]
    /\ UNCHANGED <<state, alive, dataFile, tempFile, clock, idKind, history>>

Init ==
    /\ stateFile = NoStateFile
    /\ state = [p \in Procs |-> EmptyStore]
    /\ alive = [p \in Procs |-> "none"]
    /\ dataFile = [k \in Keys |-> AbsentFile]
    /\ tempFile = [k \in Keys |-> AbsentFile]
    /\ clock = 0
    /\ idKind \in {"int64", "object"}
    /\ call = NoCall
    /\ history = << >>

Scrape ==
    \E p \in SyncProcs, url \in Urls, rc \in {0, 1}, art \in FetchFiles \cup {AbsentFile} :
        RunIncrementalScrape(p, url, rc, art)

Start == \E p \in SyncProcs : Construct(p)

Next == Scrape \/ Start \/ DeleteStateFile

Spec == Init /\ [][Next]_vars

----------------------------------------------------------------------------
(* The store specification: processes that share the state file, each       *)
(* constructed at some point and then calling update_scrape_info.           *)

\* the datasets of one record, from which the watermark of a put is derived
PutFiles == UNION {{Csv(cols, <<r>>) : r \in FetchRows(cols)} : cols \in FetchSchemas}

\* update_scrape_info(url, scrape_info) by the process p
UpdateScrapeInfo(p, url, info) ==
    LET key == GenerateSiteKey(url)
        wm == [info EXCEPT !.last_scrape_time = clock + 1, !.last_scrape_url = url]
        store == [state[p] EXCEPT ![key] = wm]
    IN  /\ alive[p] = "ready"
        /\ clock < MaxClock
        /\ clock' = clock + 1
        /\ state' = [state EXCEPT ![p] = store]
        /\ stateFile' = SaveState(stateFile, store, "ok")
        /\ call' = [NoCall EXCEPT !.op = "put", !.proc = p, !.url = url,
                                  !.saved = Serializable(store)]
        /\ history' = Append(history, [proc |-> p, key |-> key,
                                       saved |-> Serializable(store)])
        /\ UNCHANGED <<alive, dataFile, tempFile, idKind>>

Put ==
    \E p \in Procs, url \in Urls, f \in PutFiles :
        UpdateScrapeInfo(p, url, GetLatestReviewInfo(f, 1, idKind))

Load == \E p \in Procs : Construct(p)

NextStore == Load \/ Put

SpecStore == Init /\ [][NextStore]_vars

----------------------------------------------------------------------------
(* The identity specification: _generate_site_key called on urls drawn from *)
(* a bounded set.                                                           *)

KeyHosts ==
    {<<"amazon", ".com">>, <<"www.", "amazon", ".com">>, <<"walmart", ".com">>,
     <<"shop", ".example">>, << >>}

KeyPaths ==
    {<<"/", "dp", "/", "B00000000A">>, <<"/", "dp", "/", "B00000000B">>,
     <<"/", "dp", "/", "B00000000B", "/", "asin", "/", "B00000000A">>,
     <<"/", "ip", "/", "tv", "/", "1">>, <<"/", "ip", "/", "tv", "/", "2">>,
     <<"/", "item", "/", "1">>}

KeyUrls == [scheme : {"https://", ""}, host : KeyHosts, path : KeyPaths]

\* self._generate_site_key(url)
SiteKeyCall ==
    /\ Len(history) < MaxCalls
    /\ \E url \in KeyUrls :
        /\ history' = Append(history, [url |-> url, key |-> GenerateSiteKey(url)])
        /\ call' = [NoCall EXCEPT !.op = "key", !.url = url]
        /\ UNCHANGED <<stateFile, state, alive, dataFile, tempFile, clock, idKind>>

NextKey == SiteKeyCall

SpecKey == Init /\ [][NextKey]_vars

----------------------------------------------------------------------------
(* TextCleaner (review_scraper/text_cleaner.py).  A text is a sequence of   *)
(* tokens; the string is the tokens joined by single spaces, except that    *)
(* the token "/" is written with no space around it (a space is kept after  *)
(* "R&D").                                                                  *)

TextTokens ==
    {"Review:", "John says:", "<b>", "&lt;b&gt;", "&amp;lt;b&amp;gt;", "emoji",
     "good", "R&D", "Read more", "5 stars"}

Tags == {"<b>", "<span>"}

Texts(S, n) == UNION {[1..m -> S] : m \in 0..n}

RECURSIVE Without(_, _)
\* the text without the tokens of the set S
Without(t, S) ==
    IF t = << >> THEN << >>
    ELSE IF Head(t) \in S THEN Without(Tail(t), S)
    ELSE <<Head(t)>> \o Without(Tail(t), S)

Max(S) == CHOOSE i \in S : \A j \in S : j <= i

\* MLStripper.feed without close(): the parser hands over the data before each tag;
\* it holds back the data after the last tag when the text ends in an '&' that no
\* space or ';' follows, and get_data() never gets it
ParserData(t) ==
    LET lastTag == Max({0} \cup {i \in 1..Len(t) : t[i] \in Tags})
    IN  IF t # << >> /\ t[Len(t)] = "R&D" THEN Without(SubSeq(t, 1, lastTag), Tags)
        ELSE Without(t, Tags)

\* remove_html_tags: the parser drops the tags and decodes the character references
\* of the data once; the regex pass then drops the tag that the decoding produced
RemoveHtmlTags(t) ==
    LET data == ParserData(t)
        decoded == [i \in 1..Len(data) |->
                        CASE data[i] = "&lt;b&gt;" -> "<b>"
                          [] data[i] = "&amp;lt;b&amp;gt;" -> "&lt;b&gt;"
                          [] OTHER -> data[i]]
    IN  Without(decoded, Tags)

\* html.unescape
Unescape(t) ==
    [i \in 1..Len(t) |->
        CASE t[i] = "&lt;b&gt;" -> "<b>"
          [] t[i] = "&amp;lt;b&amp;gt;" -> "&lt;b&gt;"
          [] OTHER -> t[i]]

\* remove_emojis
RemoveEmojis(t) == Without(t, {"emoji"})

\* normalize_whitespace: the tokens that are left, joined by single spaces
NormalizeWhitespace(t) == t

\* the patterns of remove_review_artifacts, each applied once, in the order of the
\* list (no token of the model has brackets or parentheses)
DropLabel(t) ==
    IF t # << >> /\ Head(t) = "Review:" THEN Tail(t) ELSE t
DropReadMore(t) ==
    IF t # << >> /\ t[Len(t)] = "Read more" THEN SubSeq(t, 1, Len(t) - 1) ELSE t
DropSays(t) ==
    LET at == {i \in 1..Len(t) : t[i] = "John says:"}
    IN  IF at = {} THEN t ELSE SubSeq(t, Min(at) + 1, Len(t))
DropStars(t) ==
    IF t # << >> /\ Head(t) = "5 stars" THEN Tail(t) ELSE t

RemoveReviewArtifacts(t) == DropStars(DropSays(DropReadMore(DropLabel(t))))

CleanReviewText(t) ==
    IF t = << >> THEN << >>
    ELSE RemoveReviewArtifacts(NormalizeWhitespace(RemoveEmojis(Unescape(RemoveHtmlTags(t)))))

\* the tokens of a rating text: numbers, "/" written without and with spaces
\* around it, " out of ", " of ", " stars", a tag, and other words
RatingNums == {"4", "4.5", "5", "8", "10", "12"}
RatingTokens ==
    RatingNums \cup {"/", " / ", "out of", "of", "stars", "<span>", "rating", "R&D"}

\* float(match.group(1)), in hundredths
FloatOf(tok) ==
    CASE tok = "4" -> 400 [] tok = "4.5" -> 450 [] tok = "5" -> 500
      [] tok = "8" -> 800 [] tok = "10" -> 1000 [] tok = "12" -> 1200

Five == 500     \* the 5 of the scale, in hundredths

\* the token is a number whose text begins with the digits of the pattern
Begins5(tok) == tok \in {"5"}
Begins10(tok) == tok \in {"10"}

\* rating texts in which no two numbers are adjacent once the tags are removed
RatingTexts ==
    {t \in Texts(RatingTokens, MaxRatingLen) :
        LET x == Without(t, Tags)
        IN  \A i \in 1..(Len(x) - 1) : ~(x[i] \in RatingNums /\ x[i + 1] \in RatingNums)}

\* the positions at which the pattern n of clean_rating matches the text x
PatternMatches(n, x) ==
    {i \in 1..Len(x) :
        /\ x[i] \in RatingNums
        /\ CASE n = 1 -> /\ i + 2 <= Len(x)
                         /\ x[i + 1] \in {"out of", "/", " / ", "of"}
                         /\ Begins5(x[i + 2])
              [] n = 2 -> /\ i + 2 <= Len(x)
                         /\ x[i + 1] \in {"/", " / "} /\ Begins5(x[i + 2])
              [] n = 3 -> i + 1 <= Len(x) /\ x[i + 1] = "stars"
              [] n = 4 -> /\ i + 2 <= Len(x)
                         /\ x[i + 1] \in {"/", " / "} /\ Begins10(x[i + 2])
              [] OTHER -> TRUE}

\* '/10' in rating_text
HasSlash10(x) == \E i \in 1..(Len(x) - 1) : x[i] = "/" /\ Begins10(x[i + 1])

\* the rating left as it is
NoClamp(r) == r

\* max(0, min(5, rating))
Clamp(r) == IF r > Five THEN Five ELSE IF r < 0 THEN 0 ELSE r

\* clean_rating: the value in hundredths, PyNone when no pattern matches
CleanRating(t) ==
    IF t = << >> THEN PyNone
    ELSE LET x == RemoveHtmlTags(t)
             found == {n \in 1..5 : PatternMatches(n, x) # {}}
         IN  IF found = {} THEN PyNone
             ELSE LET rating == FloatOf(x[Min(PatternMatches(Min(found), x))])
                  IN  Clamp(IF HasSlash10(x) \/ rating > Five THEN rating \div 2
                            ELSE rating)

\* TextCleaner.clean_review_text(text), then again on its result
CleanTextCall ==
    /\ history = << >>
    /\ \E t \in Texts(TextTokens, MaxTextLen) :
        /\ history' = <<[op |-> "text", text |-> t, out |-> CleanReviewText(t),
                         again |-> CleanReviewText(CleanReviewText(t))]>>
        /\ call' = [NoCall EXCEPT !.op = "text"]
        /\ UNCHANGED <<stateFile, state, alive, dataFile, tempFile, clock, idKind>>

\* TextCleaner.clean_rating(rating_text)
CleanRatingCall ==
    /\ history = << >>
    /\ \E t \in RatingTexts :
        /\ history' = <<[op |-> "rating", text |-> t, out |-> CleanRating(t)]>>
        /\ call' = [NoCall EXCEPT !.op = "rating"]
        /\ UNCHANGED <<stateFile, state, alive, dataFile, tempFile, clock, idKind>>

NextCleaner == CleanTextCall \/ CleanRatingCall

SpecCleaner == Init /\ [][NextCleaner]_vars

----------------------------------------------------------------------------
(* The merge specification: merge_new_reviews applied to an existing file  *)
(* and a new file drawn from bounded sets, then applied again to its own   *)
(* result and the same new file.                                           *)

MK == CHOOSE k \in Keys : k[1] # "md5"

MergeSchemas ==
    {{"review_id", "review_text"},
     {"reviewer_name", "review_date", "review_text"},
     {"review_text"}}

\* the rows of a file with the columns cols: with an id column the records differ in
\* id and text, without one in reviewer and date
MergeRows(cols) ==
    {Project([id |-> a, reviewer |-> r, date |-> d, body |-> b], cols) :
        a \in IdVals \cup {NA}, r \in ReviewerVals, d \in {DateOfId(0), BadDate},
        b \in IF "review_id" \in cols THEN BodyVals ELSE {1}}

MergeFiles(n) ==
    {AbsentFile, BadFile}
        \cup UNION {{Csv(cols, rows) : rows \in SeqsUpTo(MergeRows(cols), n)} :
                    cols \in MergeSchemas}

\* merge_new_reviews(existing_file, new_file) on the files of the key MK
Merge ==
    LET E == dataFile[MK]
        N == tempFile[MK]
        m == MergeNewReviews(E, N)
    IN  /\ Len(history) < MaxMerges
        /\ dataFile' = [dataFile EXCEPT ![MK] = m.out]
        /\ history' = Append(history, [success |-> m.success, branch |-> m.branch,
                                       stats |-> m.stats, existing |-> E, new |-> N])
        /\ call' = [NoCall EXCEPT !.op = "merge", !.branch = m.branch, !.stats = m.stats,
                                  !.outcome = IF m.success THEN "success" ELSE "failed"]
        /\ UNCHANGED <<stateFile, state, alive, tempFile, clock, idKind>>

InitMerge ==
    /\ stateFile = NoStateFile
    /\ state = [p \in Procs |-> EmptyStore]
    /\ alive = [p \in Procs |-> "none"]
    /\ \E E \in MergeFiles(MaxOld) : dataFile = [k \in Keys |-> IF k = MK THEN E ELSE AbsentFile]
    /\ \E N \in MergeFiles(MaxNew) : tempFile = [k \in Keys |-> IF k = MK THEN N ELSE AbsentFile]
    /\ clock = 0
    /\ idKind = "object"
    /\ call = NoCall
    /\ history = << >>

NextMerge == Merge

SpecMerge == InitMerge /\ [][NextMerge]_vars

----------------------------------------------------------------------------
(* Claims about the merge *)

LastMerge == history[Len(history)]

KeysIn(E) == LET r == ProjectAll(E.rows, E.cols)
                 k == KeysOf(r, DedupKey(LastMerge.existing))
             IN  {k[i] : i \in 1..Len(r)}

\* C1: in every persisted dataset for which a reliable key strategy applies (an id
\* column, or reviewer and date), no two records have the same dedup key.
C1_DedupUniqueness ==
    \A k \in Keys :
        LET f == dataFile[k]
            keys == KeysOf(f.rows, DedupKey(f))
        IN  (f.kind = "csv" /\ DedupKey(f) # "none") =>
                \A i, j \in 1..Len(f.rows) : i < j => keys[i] # keys[j]

\* C2: every successful merge reports new_added, with merged = existing + new_added
\* and new_added <= new.
C2_MergeResult ==
    (call.op = "merge" /\ call.outcome = "success") =>
        /\ call.stats.new_added # NoField
        /\ call.stats.merged = call.stats.existing + call.stats.new_added
        /\ call.stats.new_added <= call.stats.new

\* the indices of the rows whose key occurs at no earlier index
FirstOfKey(keys) == {i \in 1..Len(keys) : \A j \in 1..(i - 1) : keys[j] # keys[i]}

\* the n-th index of the set of indices S
NthOf(S, n) == CHOOSE i \in S : Cardinality({j \in S : j < i}) = n - 1

\* the last merge had two sets to merge by a key: both files parse, the new one has
\* records, and the schema gives a dedup key whose columns the new file has
KeyedMerge ==
    /\ history # << >>
    /\ LastMerge.existing.kind = "csv" /\ LastMerge.new.kind = "csv"
    /\ LastMerge.new.rows # << >>
    /\ DedupKey(LastMerge.existing) # "none"
    /\ DedupKey(LastMerge.existing) = "composite" =>
            PotentialKeys(LastMerge.existing.cols) \subseteq LastMerge.new.cols

\* C3: the merge succeeds and the merged set is existing followed by new, in order,
\* less every record whose dedup key occurred earlier; for a key in both sets the
\* record kept is the existing one, never the new one.
C3_ExistingWins ==
    KeyedMerge =>
        LET out == dataFile[MK].rows
            strategy == DedupKey(LastMerge.existing)
            old == Len(LastMerge.existing.rows)
            all == Concat(LastMerge.existing, LastMerge.new).rows
            keys == KeysOf(all, strategy)
            firsts == FirstOfKey(keys)
            outKeys == KeysOf(out, strategy)
        IN  /\ LastMerge.success
            /\ Len(out) = Cardinality(firsts)
            /\ \A n \in 1..Len(out) : out[n] = all[NthOf(firsts, n)]
            /\ \A i \in 1..old : \A j \in (old + 1)..Len(all) :
                    keys[i] = keys[j] =>
                        \A n \in 1..Len(out) :
                            outKeys[n] = keys[i] => out[n] \in {all[h] : h \in 1..old}

\* a keyed merge in which a new record collides with a different existing record
C3_Witness ==
    /\ KeyedMerge /\ Len(history) = 1
    /\ Len(dataFile[MK].rows) >= 2
    /\ LET old == Len(LastMerge.existing.rows)
           all == Concat(LastMerge.existing, LastMerge.new).rows
           keys == KeysOf(all, DedupKey(LastMerge.existing))
       IN  \E i \in 1..old : \E j \in (old + 1)..Len(all) :
                keys[i] = keys[j] /\ all[i] # all[j]

\* the count of added records of a merge: new_added, or merged - existing on the
\* paths that report no new_added
NewAdded(st) == IF st.new_added # NoField THEN st.new_added ELSE st.merged - st.existing

\* no record of the file lacks the value of its dedup key
NoMissingKey(f) ==
    \A i \in 1..Len(f.rows) :
        /\ "review_id" \in f.cols => f.rows[i].id # NA
        /\ "reviewer_name" \in f.cols => f.rows[i].reviewer # NAStr
        /\ "review_date" \in f.cols => f.rows[i].date # NAStr

\* C4: merging the same new set twice in a row gives the same merged count both
\* times, and the second merge adds no record (new_added = 0).  Stated where the
\* new set has a reliable key (an id column, or reviewer and date): degraded mode,
\* in which duplicates are accepted, is left out.
C4_MergeIdempotence ==
    (/\ Len(history) = 2 /\ history[1].success /\ history[2].success
     /\ DedupKey(history[1].new) # "none" /\ NoMissingKey(history[1].new)
     /\ history[1].new.cols = history[2].existing.cols) =>
        /\ history[2].stats.merged = history[1].stats.merged
        /\ NewAdded(history[2].stats) = 0

\* C5: a keyed merge reports as new_added the number of distinct dedup keys of the
\* new set that are not in the existing set, and merged = existing + that number.
C5_OverlappingResync ==
    (/\ history # << >> /\ LastMerge.branch = "keyed"
     /\ LastMerge.new.cols = LastMerge.existing.cols
     /\ NoMissingKey(LastMerge.new) /\ NoMissingKey(LastMerge.existing)) =>
        LET fresh == Cardinality(KeysIn(LastMerge.new) \ KeysIn(LastMerge.existing))
        IN  /\ LastMerge.stats.new_added = fresh
            /\ LastMerge.stats.merged = LastMerge.stats.existing + fresh

----------------------------------------------------------------------------
(* Claims about the sync cycle and the watermark store *)

\* the step is a sync cycle that invoked the fetcher
FetchedStep == call'.op = "scrape" /\ call'.fetched

\* C6: when the fetcher exits non-zero, or exits zero without producing an output
\* file, the cycle fails and the watermark store (in memory and on disk) and the
\* datasets are as they were when the cycle started.
C6_FetchFailureUntouched ==
    [][(FetchedStep /\ (call'.rc # 0 \/ ~call'.produced)) =>
            /\ call'.outcome = "failed"
            /\ stateFile' = stateFile /\ state' = state /\ dataFile' = dataFile]_vars

\* C7: a cycle reports success only if the watermark of the source was derived and
\* persisted, besides the dataset being written.
C7_SuccessAfterBothWrites ==
    (call.op = "scrape" /\ call.outcome = "success") =>
        /\ call.derived /\ call.saved
        /\ stateFile = StateFileOf(state[call.proc])

\* C8: the state file is at every instant a complete document (or absent), never a
\* truncated or partially written one.
C8_AtomicPut == stateFile.kind \in {"absent", "json"}

\* C9: a process that starts on an absent or unparseable state file comes up with an
\* empty store: it is ready and get returns absent for every source url.
C9_LoadNeverFails ==
    (call.op = "init" /\ call.loaded \in {"absent", "partial"}) =>
        /\ alive[call.proc] = "ready"
        /\ \A url \in Urls : ~GetLastScrapeInfo(state[call.proc], url).present

\* a process started on a state file that a failed save left cut short, holding the
\* beginning of a store with a watermark in it
C9_Witness ==
    /\ call.op = "init" /\ call.loaded = "partial" /\ stateFile.kind = "partial"
    /\ \E k \in Keys : stateFile.store[k].present
    /\ alive[call.proc] = "ready"

\* C10: with no watermark neither since_date nor since_id is passed to the fetcher;
\* with a watermark, since_date is latest_date - 1 day whenever latest_date is
\* recorded and since_id is review_id whenever a review_id is recorded.
C10_FetchParams ==
    [][call'.op = "scrape" =>
        LET last == GetLastScrapeInfo(state[call'.proc], call'.url)
        IN  IF ~last.present
            THEN call'.fetched /\ call'.params = NoParams
            ELSE /\ last.latest_date # NoField =>
                        call'.fetched /\ call'.params.since_date = last.latest_date - 1
                 /\ last.review_id \notin {NoField, PyNone} =>
                        call'.fetched /\ call'.params.since_id = last.review_id]_vars

\* the columns of the dedup key that the merge of the existing file E uses
KeyColumns(E) ==
    IF DedupKey(E) = "id" THEN IdColumns(E.cols)
    ELSE IF DedupKey(E) = "composite" THEN PotentialKeys(E.cols) ELSE {}

\* C22: the key of a merge is made of columns that both files have: a merge of two
\* readable files with new records does not fail, and it deduplicates by a key only
\* if the new file has the columns of that key.
C22_KeyFromCommonColumns ==
    (/\ history # << >>
     /\ LastMerge.existing.kind = "csv" /\ LastMerge.new.kind = "csv"
     /\ LastMerge.new.rows # << >>) =>
        /\ LastMerge.success
        /\ LastMerge.branch = "keyed" =>
                KeyColumns(LastMerge.existing) \subseteq LastMerge.new.cols

----------------------------------------------------------------------------
(* Claims about the scenarios of the sync cycle *)

\* the site key, the process and the watermarks of the cycle of the step
StepKey == GenerateSiteKey(call'.url)
WmBefore == state[call'.proc][StepKey]
WmAfter == state'[call'.proc][StepKey]

\* the step is a cycle that reached its merge step and was not interrupted
MergeStepRan == FetchedStep /\ call'.branch # "none" /\ call'.outcome # "killed"

\* C11: when the fetcher succeeds with 0 records and a dataset exists, the cycle
\* succeeds with merged = existing count and new_added = 0, the dataset is unchanged,
\* and the watermark keeps latest_date and review_id while last_scrape_time advances.
C11_EmptyFetch ==
    [][(/\ MergeStepRan /\ call'.rc = 0 /\ call'.produced /\ call'.records = 0
        /\ dataFile[StepKey].kind = "csv") =>
            /\ call'.outcome = "success"
            /\ call'.stats.merged = Len(dataFile[StepKey].rows)
            /\ call'.stats.new_added = 0
            /\ dataFile' = dataFile
            /\ WmBefore.present =>
                    /\ WmAfter.latest_date = WmBefore.latest_date
                    /\ WmAfter.review_id = WmBefore.review_id
                    /\ WmAfter.last_scrape_time > WmBefore.last_scrape_time]_vars

\* the ids of the rows are pairwise distinct
DistinctIds(rows) == \A i, j \in 1..Len(rows) : i < j => rows[i].id # rows[j].id

\* C12: with no state file, no dataset and no temporary file, a cycle whose fetch
\* returns n >= 1 records with pairwise distinct ids reports existing 0, new n,
\* merged n, new_added n, and the store holds a watermark for the source afterwards.
C12_FirstSync ==
    [][(/\ MergeStepRan /\ call'.rc = 0 /\ call'.produced /\ call'.records \in 1..MaxNew
        /\ stateFile.kind = "absent" /\ ~Exists(dataFile[StepKey])
        /\ ~Exists(tempFile[StepKey])
        /\ "review_id" \in dataFile'[StepKey].cols
        /\ DistinctIds(dataFile'[StepKey].rows)) =>
            /\ call'.outcome = "success"
            /\ call'.stats = Stats4(0, call'.records, call'.records, call'.records)
            /\ WmAfter.present
            /\ stateFile'.kind = "json" /\ stateFile'.store[StepKey].present]_vars

\* C13: when neither file has an id column or a reviewer and a date column, the
\* merge takes the path that logs the no-key warning, the merged set is existing
\* followed by new with no record removed, and new_added = new.
C13_DegradedDedup ==
    (/\ history # << >>
     /\ LastMerge.existing.kind = "csv" /\ LastMerge.new.kind = "csv"
     /\ LastMerge.new.rows # << >>
     /\ DedupKey(LastMerge.existing) = "none" /\ DedupKey(LastMerge.new) = "none") =>
        /\ LastMerge.success /\ LastMerge.branch = "degraded"
        /\ dataFile[MK].rows = Concat(LastMerge.existing, LastMerge.new).rows
        /\ LastMerge.stats.merged = LastMerge.stats.existing + LastMerge.stats.new
        /\ LastMerge.stats.new_added = LastMerge.stats.new

\* the url has no scheme or no host
Malformed(url) == url.scheme = "" \/ url.host = << >>

\* C14: a cycle started with a url that has no scheme or host fails without
\* invoking the fetcher and changes neither the watermark store nor any dataset.
C14_InvalidSource ==
    [][(call'.op = "scrape" /\ Malformed(call'.url)) =>
            /\ call'.outcome = "failed" /\ ~call'.fetched
            /\ stateFile' = stateFile /\ state' = state /\ dataFile' = dataFile]_vars

C16_CycleReturns == call.op = "scrape" => call.outcome # "raised"

----------------------------------------------------------------------------
(* Claims about processes sharing the state file *)

\* C17: the store takes no lock and never reads the file in a put: a put that
\* saves writes the whole file from the writer's in-memory store, so the entries of
\* the other keys are those the writer loaded, whatever the file held since.
C17_WholeFileWrite ==
    [][(call'.op = "put" /\ call'.saved) =>
            /\ stateFile' = StateFileOf(state'[call'.proc])
            /\ \A k \in Keys \ {StepKey} :
                    stateFile'.store[k] = state[call'.proc][k]]_vars

\* a lost update: two processes each saved a watermark for a different key, and the
\* state file lacks the watermark of the first
C17_LostUpdate ==
    /\ stateFile.kind = "json"
    /\ \E i, j \in 1..Len(history) :
            /\ i < j /\ history[i].saved /\ history[j].saved
            /\ history[i].proc # history[j].proc /\ history[i].key # history[j].key
            /\ ~stateFile.store[history[i].key].present
            /\ stateFile.store[history[j].key].present

----------------------------------------------------------------------------
(* Claims about the source identity *)

\* C18: the key is a function of the url alone: a call changes no state and calls
\* with the same url give the same key; two urls with the same domain and different
\* extracted product ids get different keys.
C18_IdentityDeterminism ==
    [][call'.op = "key" =>
            /\ UNCHANGED <<stateFile, state, alive, dataFile, tempFile>>
            /\ \A i, j \in 1..Len(history') :
                    LET u == history'[i].url
                        v == history'[j].url
                    IN  /\ u = v => history'[i].key = history'[j].key
                        /\ (/\ Domain(u) = Domain(v)
                            /\ ProductId(u) # << >> /\ ProductId(v) # << >>
                            /\ ProductId(u) # ProductId(v)) =>
                                history'[i].key # history'[j].key]_vars

\* two calls on urls of one domain, written with different hosts, from which
\* different product ids are extracted
C18_Witness ==
    /\ call.op = "key" /\ Len(history) = 2
    /\ history[1].url.host # history[2].url.host
    /\ Domain(history[1].url) = Domain(history[2].url)
    /\ ProductId(history[1].url) # << >> /\ ProductId(history[2].url) # << >>
    /\ ProductId(history[1].url) # ProductId(history[2].url)
    /\ history[1].key # history[2].key

----------------------------------------------------------------------------
(* Claims about the text cleaner *)

\* C19: clean_review_text is idempotent: cleaning a cleaned text changes nothing.
C19_IdempotentCleaning ==
    (call.op = "text") => history[1].again = history[1].out

\* a number is found in the rating text: the text left by remove_html_tags has one
HasNumber(t) == \E i \in 1..Len(RemoveHtmlTags(t)) : RemoveHtmlTags(t)[i] \in RatingNums

\* C20: clean_rating returns a value in [0,5] for every text in which a number is
\* found and absent for a text in which none is; "8/10" gives 4.0, "4.5 out of 5"
\* gives 4.5 and "not a rating" gives absent.
C20_RatingRange ==
    (call.op = "rating") =>
        LET t == history[1].text
            r == history[1].out
        IN  /\ HasNumber(t) => (r # PyNone /\ 0 <= r /\ r <= Five)
            /\ ~HasNumber(t) => r = PyNone
            /\ t = <<"8", "/", "10">> => r = 400
            /\ t = <<"4.5", "out of", "5">> => r = 450
            /\ t = <<"rating">> => r = PyNone

\* clean_rating called on a number above 10 with a unit: halved, then clamped to 5
C20_Witness ==
    /\ call.op = "rating"
    /\ history[1].text = <<"12", "stars">> /\ history[1].out = Five


\* C21: the number of the first matching pattern is halved exactly when that pattern
\* is the '/10' one or the number exceeds 5, and is then clamped: a '/10' elsewhere
\* in the text halves nothing, and 'N / 10' with spaces is halved like 'N/10'.
C21_HalvingRule ==
    (call.op = "rating" /\ history[1].out # PyNone) =>
        LET x == RemoveHtmlTags(history[1].text)
            n == Min({k \in 1..5 : PatternMatches(k, x) # {}})
            v == FloatOf(x[Min(PatternMatches(n, x))])
        IN  history[1].out = Clamp(IF n = 4 \/ v > Five THEN v \div 2 ELSE v)

----------------------------------------------------------------------------
(* Claims about the records a keyed merge leaves out *)

\* the records of the last merge, existing then new, and the records it wrote
MergeInput == Concat(LastMerge.existing, LastMerge.new).rows
MergeOutput == dataFile[MK].rows

\* the record has no value in the id column that is the dedup key
LacksId(r) == DedupKey(LastMerge.existing) = "id" /\ r.id = NA

\* C25: a keyed merge leaves a record out only if an earlier record has the same
\* value of the dedup key: every key value of the input is in the merged set, and
\* records without an id value are all kept, never collapsed into one.
C25_NoSilentLoss ==
    (history # << >> /\ LastMerge.branch = "keyed") =>
        LET strategy == DedupKey(LastMerge.existing)
            keysIn == KeysOf(MergeInput, strategy)
            keysOut == KeysOf(MergeOutput, strategy)
        IN  /\ \A i \in 1..Len(MergeInput) :
                   \E j \in 1..Len(MergeOutput) : keysOut[j] = keysIn[i]
            /\ Cardinality({j \in 1..Len(MergeOutput) : LacksId(MergeOutput[j])})
                   = Cardinality({i \in 1..Len(MergeInput) : LacksId(MergeInput[i])})

\* C27: the composite key is injective: two records of a merge by reviewer and date
\* have the same composite key only if they have the same reviewer and the same
\* date, also when a value contains the separator of the join.
C27_CompositeKeyInjective ==
    (/\ history # << >> /\ LastMerge.branch = "keyed"
     /\ DedupKey(LastMerge.existing) = "composite") =>
        \A i, j \in 1..Len(MergeInput) :
            MergeKey(MergeInput[i]) = MergeKey(MergeInput[j]) =>
                /\ MergeInput[i].reviewer = MergeInput[j].reviewer
                /\ MergeInput[i].date = MergeInput[j].date

\* C29: when a merge returns success its stats describe the file at the returned
\* path: merged is the number of records of that file and existing is the number of
\* records the existing file held before the call, on every success path.
C29_StatsDescribeFile ==
    (/\ history # << >> /\ LastMerge.success
     /\ dataFile[MK].kind = "csv") =>
        /\ LastMerge.stats.merged = Len(dataFile[MK].rows)
        /\ LastMerge.stats.existing = Len(LastMerge.existing.rows)

----------------------------------------------------------------------------
(* Claims about the watermark derived by a sync cycle *)

\* the site key, the dataset and the stored watermark of the last sync cycle
CycleKey == GenerateSiteKey(call.url)
CycleData == dataFile[CycleKey]
CycleWm == state[call.proc][CycleKey]

\* C23: after a successful cycle on a dataset with a date column the stored watermark
\* describes the latest record of the dataset: latest_date is the maximum date of the
\* records, review_id is the id of a record of that date, and total_reviews is the
\* merged count that the cycle reported.
C23_WatermarkOfLatest ==
    (/\ call.op = "scrape" /\ call.outcome = "success"
     /\ CycleData.kind = "csv" /\ DateColumns(CycleData.cols) # {}
     /\ CycleData.rows # << >>) =>
        /\ CycleWm.present
        /\ \E i \in 1..Len(CycleData.rows) :
              /\ ParseDate(CycleData.rows[i].date) # NaT
              /\ \A j \in 1..Len(CycleData.rows) :
                     ParseDate(CycleData.rows[j].date) = NaT
                     \/ ParseDate(CycleData.rows[j].date) <= ParseDate(CycleData.rows[i].date)
              /\ CycleWm.latest_date = ParseDate(CycleData.rows[i].date)
              /\ IdColumns(CycleData.cols) # {} => CycleWm.review_id = CycleData.rows[i].id
        /\ CycleWm.total_reviews = call.stats.merged

\* C24: the records merged in a cycle are those its own fetch produced: a cycle whose
\* fetcher exits zero without writing a file merges nothing, also when an earlier
\* cycle of the source left its temporary file on disk.
C24_OnlyOwnFetchMerged ==
    [][(FetchedStep /\ call'.rc = 0 /\ ~call'.produced) =>
            /\ call'.branch = "none"
            /\ dataFile'[StepKey] = dataFile[StepKey]]_vars

\* C26: recorded progress never moves backwards: a successful cycle leaves the
\* watermark's latest_date and total_reviews at least what they were before it, and
\* every merge reports merged >= existing.
C26_MonotoneProgress ==
    [][(FetchedStep /\ call'.outcome = "success") =>
            /\ call'.stats.merged >= call'.stats.existing
            /\ WmBefore.present =>
                   /\ WmAfter.total_reviews >= WmBefore.total_reviews
                   /\ (WmBefore.latest_date >= 1 /\ WmAfter.latest_date # NoField) =>
                          WmAfter.latest_date >= WmBefore.latest_date]_vars

----------------------------------------------------------------------------
(* Claims about the persisted store *)

\* C28: after update_scrape_info returns, the store on disk is the store in memory: a
\* scraper constructed then on the same directory loads, for every source key, the
\* watermark that the writer holds.
C28_PersistedEqualsMemory ==
    call.op = "put" =>
        /\ ~LoadRaises(stateFile)
        /\ \A k \in Keys : LoadState(stateFile)[k] = state[call.proc][k]

----------------------------------------------------------------------------
(* Claims about the frame of a sync cycle *)

\* C30: a sync cycle for one source changes only that source's state: the watermark
\* of every other source key, in the store of the process and in the persisted
\* store, and the dataset and temporary file of every other source are unchanged.
C30_CycleFrame ==
    [][call'.op = "scrape" =>
            \A k \in Keys \ {StepKey} :
                /\ state'[call'.proc][k] = state[call'.proc][k]
                /\ LoadState(stateFile')[k] = LoadState(stateFile)[k]
                /\ dataFile'[k] = dataFile[k]
                /\ tempFile'[k] = tempFile[k]]_vars

====
